---------------------------- MODULE Spec2Model ----------------------------
(***************************************************************************)
(* Voice-chat session bridge of Travel-Concierge-Server.                   *)
(*                                                                         *)
(*  - ADKLiveHandler (adk_live_handler.py): the session registry           *)
(*    active_sessions / user_sessions with its capacity clean-up.          *)
(*  - VoiceWebSocketServer (websocket_server.py): the connection handler   *)
(*    that sits on top of the registry.                                    *)
(*  - unified_voice_server.py: the per-session upstream listener and the   *)
(*    transcript consolidator.                                             *)
(*  - WebSocketADKBridge (websocket_adk_bridge.py): the bridge server and  *)
(*    its VoiceChatSession.                                                *)
(*  - VoiceChatSessionsView (views.py): the admin delete of all sessions.  *)
(*  - TokenService / AuthService (user_manager): tokens and their          *)
(*    invalidation.                                                        *)
(***************************************************************************)
EXTENDS Integers, Sequences, FiniteSets, TLC

(***************************************************************************)
(* Bounds of the model.                                                    *)
(***************************************************************************)
\* number of create_auto_session calls explored
MaxCreates == 12
\* number of direct close_session calls explored
MaxCloses == 1

\* user ids handed to create_auto_session
Users == {"u1", "u2"}

\* ADKLiveHandler.max_sessions
max_sessions == 10

\* session_info is None / dict.get() found nothing
None == [type |-> "None"]

VARIABLES
    active_sessions,   \* ADKLiveHandler.active_sessions : session_id -> session_info
    user_sessions,     \* ADKLiveHandler.user_sessions   : user_id -> session_id
    session_seq,       \* sessions created so far (time.time() / uuid4 of the next one)
    api_closes,        \* direct close_session calls made so far
    queue_closes,      \* live_request_queue.close() calls, per session ever registered
    pending_creates,   \* create_auto_session calls suspended before they register, per user
    view_delete,       \* VoiceChatSessionsView.delete in progress: its session_ids and its place
    \* ---- unified_voice_server.py, one connection of websocket_endpoint ----
    endpoint,          \* websocket_endpoint: "accepting", "running", "closed"
    session_data,      \* active_sessions.get(session_id): None or the session dict
    timer_task,        \* the consolidate_and_send task the last TextDelta created
    listen_client,     \* listen_to_client task: "idle", "running", "done"
    listen_adk,        \* listen_to_adk task: "idle", "running", "done"
    ws_open,           \* the client side of the websocket is still connected
    out,               \* messages websocket.send_text delivered to the client
    now,               \* time.time(), in ticks of TickMs milliseconds
    last_event,        \* the upstream event listen_to_adk handled last
    audio_recv,        \* payloads of the audio parts received from upstream so far
    n_events,          \* upstream events handled so far
    \* ---- websocket_server.py, VoiceWebSocketServer ----
    ws_state,          \* handle_client per websocket: "new", "open", "closed"
    ws_session_id,     \* handle_client's local session_id per websocket
    websocket_sessions,\* VoiceWebSocketServer.websocket_sessions : websocket -> session_id
    ws_out,            \* message types websocket.send delivered, per websocket
    stream_task,       \* stream_responses per websocket: "none", "running", "done"
    queue_sent,        \* items put on the live_request_queue, per websocket's session
    last_frame,        \* the inbound frame handle_client handled last, and its websocket
    n_frames,          \* inbound frames handled so far
    n_responses,       \* upstream responses streamed so far
    server_time,       \* time.time() of the server, in ticks
    ping_sent,         \* the send time of the ping that is on its way, or NoPing
    last_pong,         \* the last pong sent: the ping's send time and the timestamp
    \* ---- websocket_adk_bridge.py, WebSocketADKBridge ----
    brg_state,         \* handle_client of the bridge: "new", "open", "closed"
    websocket_to_session, \* WebSocketADKBridge.websocket_to_session[websocket] or NoSession
    brg_sessions,      \* WebSocketADKBridge.active_sessions : session_id -> VoiceChatSession
    brg_out,           \* message types the bridge delivered to the client
    brg_seq,           \* bridge sessions created so far
    brg_frames,        \* inbound frames the bridge handled so far
    brg_responses,     \* upstream events the bridge handled so far
    \* ---- user_manager/service/auth_service.py, TokenService / AuthService ----
    user_tokens,       \* the UserToken table : token -> row
    auth_now,          \* timezone.now(), in seconds
    issued,            \* tokens login_user has returned
    invalidated,       \* tokens a successful invalidate_token has marked inactive
    last_auth,         \* the last operation of the auth service and its result
    n_auth_ops         \* auth operations made so far

regVars == <<active_sessions, user_sessions, session_seq, api_closes, queue_closes,
             pending_creates, view_delete>>

uvsVars == <<endpoint, session_data, timer_task, listen_client, listen_adk, ws_open,
             out, now, last_event, audio_recv, n_events>>

srvVars == <<ws_state, ws_session_id, websocket_sessions, ws_out, stream_task,
             queue_sent, last_frame, n_frames, n_responses, server_time, ping_sent,
             last_pong>>

brgVars == <<brg_state, websocket_to_session, brg_sessions, brg_out, brg_seq,
             brg_frames, brg_responses>>

authVars == <<user_tokens, auth_now, issued, invalidated, last_auth, n_auth_ops>>

vars == <<active_sessions, user_sessions, session_seq, api_closes, queue_closes,
          pending_creates, view_delete,
          endpoint, session_data, timer_task, listen_client, listen_adk, ws_open,
          out, now, last_event, audio_recv, n_events,
          ws_state, ws_session_id, websocket_sessions, ws_out, stream_task,
          queue_sent, last_frame, n_frames, n_responses, server_time, ping_sent,
          last_pong,
          brg_state, websocket_to_session, brg_sessions, brg_out, brg_seq,
          brg_frames, brg_responses,
          user_tokens, auth_now, issued, invalidated, last_auth, n_auth_ops>>

(***************************************************************************)
(* ADKLiveHandler: the registry as a value, so that the handlers built on  *)
(* it (create, clean-up, the server's handlers) compose.                   *)
(***************************************************************************)
Registry == [active |-> active_sessions, users |-> user_sessions,
             closes |-> queue_closes]

\* dict without key k
Without(f, k) == [x \in DOMAIN f \ {k} |-> f[x]]

\* dict with f[k] = v set
With(f, k, v) == [x \in DOMAIN f \cup {k} |-> IF x = k THEN v ELSE f[x]]

\* close_session that closes the request queue of a session it does not find
close_session_closes_again(reg, session_id) ==
    [active |-> Without(reg.active, session_id),
     users  |-> reg.users,
     closes |-> IF session_id \in DOMAIN reg.closes
                THEN [reg.closes EXCEPT ![session_id] = @ + 1] ELSE reg.closes]

\* close_session(session_id): the registry afterwards
close_session(reg, session_id) ==
    IF session_id \notin DOMAIN reg.active
    THEN reg
    ELSE LET user_id == reg.active[session_id].user_id
         IN  [active |-> Without(reg.active, session_id),
              users  |-> IF user_id \in DOMAIN reg.users
                         THEN Without(reg.users, user_id)
                         ELSE reg.users,
              closes |-> [reg.closes EXCEPT ![session_id] = @ + 1]]

\* session_items.sort(key=created_at): the i-th oldest session id.  The sort
\* is stable and the dict keeps insertion order, so equal created_at keep
\* their creation order (session ids grow with creation).
Older(act, a, b) ==
    \/ act[a].created_at < act[b].created_at
    \/ act[a].created_at = act[b].created_at /\ a < b

SortedItem(act, i) ==
    CHOOSE s \in DOMAIN act : Cardinality({t \in DOMAIN act : Older(act, t, s)}) = i

\* the for loop of _cleanup_old_sessions over session_items (a snapshot)
RECURSIVE CloseOldest(_, _, _, _)
CloseOldest(reg, items, i, sessions_to_close) ==
    IF i >= sessions_to_close
    THEN reg
    ELSE IF i < Cardinality(DOMAIN items)
         THEN CloseOldest(close_session(reg, SortedItem(items, i)), items, i + 1,
                          sessions_to_close)
         ELSE CloseOldest(reg, items, i + 1, sessions_to_close)

\* the early return of _cleanup_old_sessions
NothingToCleanUp(n) == n <= max_sessions

_cleanup_old_sessions(reg) ==
    IF NothingToCleanUp(Cardinality(DOMAIN reg.active))
    THEN reg
    ELSE CloseOldest(reg, reg.active, 0,
                     Cardinality(DOMAIN reg.active) - max_sessions + 1)

\* the session_info dict create_auto_session stores
SessionInfo(session_id, user_id, created_at) ==
    [session_id |-> session_id, user_id |-> user_id,
     created_at |-> created_at, is_active |-> TRUE]

\* create_auto_session, lines 156-170: session_info is stored in both maps
StoreSession(r, session_id, user_id) ==
    [active |-> With(r.active, session_id,
                     SessionInfo(session_id, user_id, session_id)),
     users  |-> With(r.users, user_id, session_id),
     closes |-> With(r.closes, session_id, 0)]

\* create_auto_session(user_id) that runs to the end: clean-up, then both
\* maps are written
RegisterSession(reg, session_id, user_id) ==
    StoreSession(_cleanup_old_sessions(reg), session_id, user_id)

\* a create_auto_session that raises after it has stored the session
create_auto_session_raised_after_store(reg, user_id) ==
    StoreSession(_cleanup_old_sessions(reg), 0, user_id)

\* create_auto_session(user_id) whose ADK set-up raises (lines 126-154): the
\* clean-up has run, nothing is stored, None is returned
create_auto_session_raised(reg, user_id) == _cleanup_old_sessions(reg)

(***************************************************************************)
(* The registry driven directly (as the handler's tests and tools do).    *)
(***************************************************************************)
create_auto_session(user_id) ==
    /\ session_seq < MaxCreates
    /\ LET session_id == session_seq + 1
           r == RegisterSession(Registry, session_id, user_id)
       IN  /\ active_sessions' = r.active
           /\ user_sessions' = r.users
           /\ queue_closes' = r.closes
           /\ session_seq' = session_id
    /\ UNCHANGED <<api_closes, pending_creates, view_delete>>
    /\ UNCHANGED uvsVars
    /\ UNCHANGED srvVars
    /\ UNCHANGED <<brgVars, authVars>>

\* create_auto_session whose ADK set-up raises (lines 126-154): the
\* clean-up has run, nothing is registered, None is returned
create_auto_session_failed(user_id) ==
    /\ LET r == create_auto_session_raised(Registry, user_id)
       IN  /\ active_sessions' = r.active
           /\ user_sessions' = r.users
           /\ queue_closes' = r.closes
    /\ UNCHANGED <<session_seq, api_closes, pending_creates, view_delete, view_delete>>
    /\ UNCHANGED uvsVars
    /\ UNCHANGED srvVars
    /\ UNCHANGED <<brgVars, authVars>>

\* close_session(session_id) on any id ever handed out
close_session_call(session_id) ==
    /\ api_closes < MaxCloses
    /\ LET r == close_session(Registry, session_id)
       IN  /\ active_sessions' = r.active
           /\ user_sessions' = r.users
           /\ queue_closes' = r.closes
    /\ api_closes' = api_closes + 1
    /\ UNCHANGED <<session_seq, pending_creates, view_delete>>
    /\ UNCHANGED uvsVars
    /\ UNCHANGED srvVars
    /\ UNCHANGED <<brgVars, authVars>>

\* create_auto_session calls that may be suspended at the same time
MaxInFlight == 2

\* create_auto_session calls of all users that are suspended
RECURSIVE InFlightOf(_, _)
InFlightOf(pending, users) ==
    IF users = {} THEN 0
    ELSE LET u == CHOOSE x \in users : TRUE
         IN  pending[u] + InFlightOf(pending, users \ {u})

InFlight == InFlightOf(pending_creates, Users)

\* create_auto_session(user_id) up to "await session_service.create_session":
\* the clean-up has run and the call is suspended in the ADK set-up, other
\* coroutines of the event loop run
create_auto_session_suspend(user_id) ==
    /\ session_seq + InFlight < MaxCreates
    /\ InFlight < MaxInFlight
    /\ LET r == _cleanup_old_sessions(Registry)
       IN  /\ active_sessions' = r.active
           /\ user_sessions' = r.users
           /\ queue_closes' = r.closes
    /\ pending_creates' = [pending_creates EXCEPT ![user_id] = @ + 1]
    /\ UNCHANGED <<session_seq, api_closes, view_delete>>
    /\ UNCHANGED uvsVars
    /\ UNCHANGED srvVars
    /\ UNCHANGED <<brgVars, authVars>>

\* a suspended create_auto_session(user_id) is resumed: the ADK set-up
\* returns and both maps are written (lines 156-170), or it raises and None
\* is returned
create_auto_session_resume(user_id, raised) ==
    /\ pending_creates[user_id] > 0
    /\ pending_creates' = [pending_creates EXCEPT ![user_id] = @ - 1]
    /\ IF raised
       THEN UNCHANGED <<active_sessions, user_sessions, queue_closes, session_seq>>
       ELSE LET session_id == session_seq + 1
                r == StoreSession(Registry, session_id, user_id)
            IN  /\ active_sessions' = r.active
                /\ user_sessions' = r.users
                /\ queue_closes' = r.closes
                /\ session_seq' = session_id
    /\ UNCHANGED <<api_closes, view_delete>>
    /\ UNCHANGED uvsVars
    /\ UNCHANGED srvVars
    /\ UNCHANGED <<brgVars, authVars>>

(***************************************************************************)
(* The registry as the REST views and the audio path use it.               *)
(***************************************************************************)
\* no VoiceChatSessionsView.delete is in progress
NoDelete == [session_ids |-> << >>, marked |-> FALSE]

\* list(active_sessions.keys()): the keys in insertion order, which is the
\* order the sessions were created in
RECURSIVE KeyList(_)
KeyList(keys) ==
    IF keys = {} THEN << >>
    ELSE LET k == CHOOSE x \in keys : \A y \in keys : x <= y
         IN  <<k>> \o KeyList(keys \ {k})

\* cleanup_all_sessions: close_session for every key, then both maps are
\* cleared
RECURSIVE CloseAll(_, _)
CloseAll(reg, session_ids) ==
    IF session_ids = << >> THEN reg
    ELSE CloseAll(close_session(reg, Head(session_ids)), Tail(session_ids))

cleanup_all_sessions(reg) ==
    [active |-> << >>, users |-> << >>,
     closes |-> CloseAll(reg, KeyList(DOMAIN reg.active)).closes]

cleanup_all_sessions_call ==
    /\ api_closes < MaxCloses
    /\ api_closes' = api_closes + 1
    /\ LET r == cleanup_all_sessions(Registry)
       IN  /\ active_sessions' = r.active
           /\ user_sessions' = r.users
           /\ queue_closes' = r.closes
    /\ UNCHANGED <<session_seq, pending_creates, view_delete>>
    /\ UNCHANGED uvsVars
    /\ UNCHANGED srvVars
    /\ UNCHANGED <<brgVars, authVars>>

\* process_audio_input(session_id, audio_data): the registry afterwards
process_audio_input(reg, session_id) ==
    IF session_id \notin DOMAIN reg.active
    THEN reg
    ELSE [reg EXCEPT !.active[session_id].is_active = TRUE]

process_audio_input_call(session_id) ==
    /\ active_sessions' = process_audio_input(Registry, session_id).active
    /\ UNCHANGED <<user_sessions, session_seq, api_closes, queue_closes,
                   pending_creates, view_delete>>
    /\ UNCHANGED uvsVars
    /\ UNCHANGED srvVars
    /\ UNCHANGED <<brgVars, authVars>>

\* VoiceChatSessionsView.delete, line 80: the request thread takes the list
\* of session ids.  The view runs in a request thread next to the event
\* loop, so the event loop's coroutines run between its statements.
views_delete_begin ==
    /\ view_delete = NoDelete
    /\ api_closes < MaxCloses
    /\ api_closes' = api_closes + 1
    /\ view_delete' = [session_ids |-> KeyList(DOMAIN active_sessions),
                        marked |-> FALSE]
    /\ UNCHANGED <<active_sessions, user_sessions, session_seq, queue_closes,
                   pending_creates>>
    /\ UNCHANGED uvsVars
    /\ UNCHANGED srvVars
    /\ UNCHANGED <<brgVars, authVars>>

\* VoiceChatSessionsView.delete, lines 88-89: the next session of the list
\* is marked inactive if it is still registered
views_delete_mark ==
    /\ view_delete.session_ids # << >>
    /\ ~view_delete.marked
    /\ LET session_id == Head(view_delete.session_ids)
       IN  IF session_id \in DOMAIN active_sessions
           THEN /\ active_sessions' =
                       [active_sessions EXCEPT ![session_id].is_active = FALSE]
                /\ view_delete' = [view_delete EXCEPT !.marked = TRUE]
           ELSE /\ view_delete' =
                       [view_delete EXCEPT !.session_ids = Tail(@)]
                /\ UNCHANGED active_sessions
    /\ UNCHANGED <<user_sessions, session_seq, api_closes, queue_closes,
                   pending_creates>>
    /\ UNCHANGED uvsVars
    /\ UNCHANGED srvVars
    /\ UNCHANGED <<brgVars, authVars>>

\* VoiceChatSessionsView.delete, line 90: del active_sessions[session_id]
\* (a KeyError is swallowed); user_sessions is not touched
views_delete_del ==
    /\ view_delete.marked
    /\ LET session_id == Head(view_delete.session_ids)
       IN  active_sessions' = IF session_id \in DOMAIN active_sessions
                              THEN Without(active_sessions, session_id)
                              ELSE active_sessions
    /\ view_delete' = [session_ids |-> Tail(view_delete.session_ids),
                        marked |-> FALSE]
    /\ UNCHANGED <<user_sessions, session_seq, api_closes, queue_closes,
                   pending_creates>>
    /\ UNCHANGED uvsVars
    /\ UNCHANGED srvVars
    /\ UNCHANGED <<brgVars, authVars>>

InitRegistry ==
    /\ active_sessions = << >>
    /\ user_sessions = << >>
    /\ session_seq = 0
    /\ api_closes = 0
    /\ queue_closes = << >>
    /\ pending_creates = [u \in Users |-> 0]
    /\ view_delete = NoDelete

(***************************************************************************)
(* unified_voice_server.py: texts, audio payloads and base64.              *)
(*                                                                         *)
(* A text is a sequence of characters, an audio payload a sequence of      *)
(* bytes 0..255.  A base64 string is a sequence of sextets 0..63, with     *)
(* B64Pad for "=" and B64Junk for a character outside the alphabet.        *)
(***************************************************************************)
T_x == <<"x">>
T_Hi_sp == <<"H", "i", " ">>
T_Hi == <<"H", "i">>
T_Hi_there == <<"H", "i", " ", "t", "h", "e", "r", "e">>
T_Hello == <<"H", "e", "l", "l", "o">>
T_Hello_world == <<"H", "e", "l", "l", "o", " ", "w", "o", "r", "l", "d">>

\* the text parts the upstream may stream
Texts == {T_x, T_Hi_sp, T_Hi_there, T_Hello, T_Hello_world}

\* the inline_data payloads the upstream may stream
AudioPayloads == {<<255>>, <<0, 16>>, <<1, 2, 3>>}

IsSpace(c) == c = " "

\* str.strip()
RECURSIVE lstrip(_)
lstrip(s) == IF s # << >> /\ IsSpace(Head(s)) THEN lstrip(Tail(s)) ELSE s

RECURSIVE rstrip(_)
rstrip(s) ==
    IF s # << >> /\ IsSpace(s[Len(s)]) THEN rstrip(SubSeq(s, 1, Len(s) - 1)) ELSE s

strip(s) == rstrip(lstrip(s))

\* a in b, for strings
IsSubstring(a, b) ==
    \E i \in 0..(Len(b) - Len(a)) : SubSeq(b, i + 1, i + Len(a)) = a

B64Pad == 64
B64Junk == 65

\* b64encode that drops a trailing group of one or two bytes
RECURSIVE b64encode_full_groups_only(_)
b64encode_full_groups_only(data) ==
    IF Len(data) < 3 THEN << >>
    ELSE <<data[1] \div 4, (data[1] % 4) * 16 + data[2] \div 16,
           (data[2] % 16) * 4 + data[3] \div 64, data[3] % 64>>
         \o b64encode_full_groups_only(SubSeq(data, 4, Len(data)))

\* base64.b64encode(data)
RECURSIVE b64encode(_)
b64encode(data) ==
    IF Len(data) = 0 THEN << >>
    ELSE IF Len(data) = 1
    THEN <<data[1] \div 4, (data[1] % 4) * 16, B64Pad, B64Pad>>
    ELSE IF Len(data) = 2
    THEN <<data[1] \div 4, (data[1] % 4) * 16 + data[2] \div 16,
           (data[2] % 16) * 4, B64Pad>>
    ELSE <<data[1] \div 4, (data[1] % 4) * 16 + data[2] \div 16,
           (data[2] % 16) * 4 + data[3] \div 64, data[3] % 64>>
         \o b64encode(SubSeq(data, 4, Len(data)))

\* binascii.Error
B64Error == "binascii.Error"

\* the quads of a base64 string whose length is a multiple of 4
RECURSIVE DecodeQuads(_)
DecodeQuads(s) ==
    IF Len(s) = 0 THEN << >>
    ELSE IF s[3] = B64Pad
    THEN <<s[1] * 4 + s[2] \div 16>>
    ELSE IF s[4] = B64Pad
    THEN <<s[1] * 4 + s[2] \div 16, (s[2] % 16) * 16 + s[3] \div 4>>
    ELSE <<s[1] * 4 + s[2] \div 16, (s[2] % 16) * 16 + s[3] \div 4,
           (s[3] % 4) * 64 + s[4]>>
         \o DecodeQuads(SubSeq(s, 5, Len(s)))

\* base64.b64decode(s) with validate=False: characters outside the alphabet
\* are discarded, then a length that is no multiple of 4 is "Incorrect padding"
b64decode(s) ==
    LET t == SelectSeq(s, LAMBDA c : c # B64Junk)
    IN  IF Len(t) % 4 # 0 THEN B64Error ELSE DecodeQuads(t)

(***************************************************************************)
(* unified_voice_server.py: the transcript consolidator.                   *)
(***************************************************************************)
\* time is counted in ticks of half a second
\* asyncio.sleep(1.5) of consolidate_and_send, in ticks
ConsolidationDelay == 3
\* the 10.0 seconds a chunk stays in transcript_buffer, in ticks
BufferWindow == 20
\* chunk['length'] > 50 of recent_long_transcripts
LongLength == 50

\* upstream events handled per connection
MaxEvents == 3
\* last value of now explored
MaxTime == 6

TextEvent(t) == [type |-> "text", text |-> t]
AudioEvent(b) == [type |-> "audio", data |-> b]
TurnCompleteEvent == [type |-> "turn_complete"]
InterruptedEvent == [type |-> "interrupted"]

\* the events runner.run_live may yield
UpstreamEvents ==
    {TextEvent(t) : t \in Texts} \cup {AudioEvent(b) : b \in AudioPayloads}
        \cup {TurnCompleteEvent, InterruptedEvent}

Message(type, data) == [type |-> type, data |-> data]

\* the dict transcript_buffer.append() adds
Chunk(text, timestamp) == [text |-> text, timestamp |-> timestamp, length |-> Len(text)]

\* the list comprehension that keeps the chunks of the last 10 seconds
RecentChunks(buffer, current_time) ==
    SelectSeq(buffer, LAMBDA chunk : current_time - chunk.timestamp < BufferWindow)

\* max(seq, key=...): Python returns the first maximal element
FirstMaxByLength(buffer) ==
    buffer[CHOOSE i \in 1..Len(buffer) :
              /\ \A j \in 1..Len(buffer) : buffer[j].length <= buffer[i].length
              /\ \A j \in 1..(i - 1) : buffer[j].length < buffer[i].length]

FirstMaxByTimestamp(buffer) ==
    buffer[CHOOSE i \in 1..Len(buffer) :
              /\ \A j \in 1..Len(buffer) : buffer[j].timestamp <= buffer[i].timestamp
              /\ \A j \in 1..(i - 1) : buffer[j].timestamp < buffer[i].timestamp]

\* most_recent_long['length'] >= len(longest_transcript) * 0.8
WithinEightyPercent(length, longest_length) == 5 * length >= 4 * longest_length

\* a consolidator that sends the oldest buffered chunk
longest_transcript_oldest(current_buffer) == current_buffer[1].text

\* a consolidator that always sends the longest buffered chunk
longest_transcript_longest_only(current_buffer) ==
    FirstMaxByLength(current_buffer).text

\* lines 189-197: the transcript consolidate_and_send selects
longest_transcript(current_buffer) ==
    LET longest == FirstMaxByLength(current_buffer).text
        recent_long_transcripts ==
            SelectSeq(current_buffer, LAMBDA chunk : chunk.length > LongLength)
    IN  IF recent_long_transcripts # << >>
           /\ WithinEightyPercent(FirstMaxByTimestamp(recent_long_transcripts).length,
                                  Len(longest))
        THEN FirstMaxByTimestamp(recent_long_transcripts).text
        ELSE longest

\* a dedup that only compares for equality
AlreadySent_equal_only(transcript, last_sent) == transcript = last_sent

\* lines 203 and 212: the two tests that skip a transcript already sent
AlreadySent(transcript, last_sent) ==
    \/ transcript = last_sent
    \/ last_sent # << >> /\ IsSubstring(transcript, last_sent)

\* a length filter that only drops the empty text
TooShort_empty_only(transcript_text) == Len(transcript_text) < 1

\* len(transcript_text) < 2 of listen_to_adk
TooShort(transcript_text) == Len(transcript_text) < 2

\* the session dict websocket_endpoint stores (the fields the consolidator uses)
NewSessionData ==
    [last_transcript |-> << >>, transcript_buffer |-> << >>,
     consolidation_timer |-> FALSE]

NoTask == [pc |-> "idle", deadline |-> 0, msg |-> << >>]

(***************************************************************************)
(* unified_voice_server.py: websocket_endpoint and its tasks.              *)
(***************************************************************************)
\* websocket.send_text: delivered while the client is connected, raises otherwise
Sent(log, msg) == Append(log, msg)

\* consolidation_timer.cancel(): a task that sleeps just ends; a task that is
\* inside websocket.send_text gets CancelledError there, and the frame it was
\* writing may or may not have reached the client
OutAfterCancel ==
    IF session_data # None /\ session_data.consolidation_timer
       /\ timer_task.pc = "sending" /\ ws_open
    THEN {out, Sent(out, Message("transcript", timer_task.msg))}
    ELSE {out}

\* websocket_endpoint up to asyncio.gather: accept, 'connected', the session
\* dict, the greeting, the two tasks
websocket_endpoint_start ==
    /\ endpoint = "accepting"
    /\ endpoint' = "running"
    /\ out' = Sent(out, Message("connected", << >>))
    /\ session_data' = NewSessionData
    /\ listen_client' = "running"
    /\ listen_adk' = "running"
    /\ UNCHANGED <<timer_task, ws_open, now, last_event, audio_recv, n_events>>
    /\ UNCHANGED regVars
    /\ UNCHANGED srvVars
    /\ UNCHANGED <<brgVars, authVars>>

\* websocket_endpoint when define_travel_agent / create_session / RunConfig
\* raises: 'connected', an error message, return; nothing was stored
websocket_endpoint_start_failed ==
    /\ endpoint = "accepting"
    /\ endpoint' = "closed"
    /\ out' = Sent(Sent(out, Message("connected", << >>)), Message("error", << >>))
    /\ UNCHANGED <<session_data, timer_task, listen_client, listen_adk, ws_open, now,
                   last_event, audio_recv, n_events>>
    /\ UNCHANGED regVars
    /\ UNCHANGED srvVars
    /\ UNCHANGED <<brgVars, authVars>>

\* listen_to_client: websocket.receive_bytes raises WebSocketDisconnect
client_disconnect ==
    /\ endpoint = "running"
    /\ ws_open
    /\ ws_open' = FALSE
    /\ listen_client' = "done"
    /\ UNCHANGED <<endpoint, session_data, timer_task, listen_adk, out, now,
                   last_event, audio_recv, n_events>>
    /\ UNCHANGED regVars
    /\ UNCHANGED srvVars
    /\ UNCHANGED <<brgVars, authVars>>

\* listen_to_client: websocket.receive_bytes raises anything else (a text
\* frame has no 'bytes'); the task ends, the client stays connected
listen_to_client_error ==
    /\ listen_client = "running"
    /\ ws_open
    /\ listen_client' = "done"
    /\ UNCHANGED <<endpoint, session_data, timer_task, listen_adk, ws_open, out, now,
                   last_event, audio_recv, n_events>>
    /\ UNCHANGED regVars
    /\ UNCHANGED srvVars
    /\ UNCHANGED <<brgVars, authVars>>

\* process_transcript_with_buffering that does not keep the handle of the
\* timer task it creates
process_transcript_with_buffering_handle_dropped(data, transcript_text, current_time) ==
    [data EXCEPT
        !.transcript_buffer =
            RecentChunks(Append(data.transcript_buffer,
                                Chunk(transcript_text, current_time)),
                         current_time),
        !.consolidation_timer = FALSE]

\* process_transcript_with_buffering(websocket, session_id, transcript_text):
\* the session dict afterwards
process_transcript_with_buffering(data, transcript_text, current_time) ==
    [data EXCEPT
        !.transcript_buffer =
            RecentChunks(Append(data.transcript_buffer,
                                Chunk(transcript_text, current_time)),
                         current_time),
        !.consolidation_timer = TRUE]

\* time.time() of two chunks differs: the clock has moved since the last
\* chunk was stamped
ClockAdvanced ==
    \A i \in 1..Len(session_data.transcript_buffer) :
        session_data.transcript_buffer[i].timestamp < now

\* listen_to_adk, a text part
listen_to_adk_text(event) ==
    LET transcript_text == strip(event.text)
    IN  IF TooShort(transcript_text)
        THEN UNCHANGED <<session_data, timer_task, out>>
        ELSE /\ ClockAdvanced
             /\ out' \in OutAfterCancel
             /\ session_data' =
                    process_transcript_with_buffering(session_data, transcript_text, now)
             /\ timer_task' = [pc |-> "sleeping", deadline |-> now + ConsolidationDelay,
                               msg |-> << >>]

\* the message listen_to_adk sends at once for an event that is no text
ImmediateMessage(event) ==
    IF event.type = "audio"
    THEN Message("audio_chunk", b64encode(event.data))
    ELSE Message(event.type, << >>)

\* listen_to_adk, one event of runner.run_live
listen_to_adk_event(event) ==
    /\ listen_adk = "running"
    /\ n_events < MaxEvents
    /\ n_events' = n_events + 1
    /\ last_event' = event
    /\ audio_recv' = IF event.type = "audio" THEN Append(audio_recv, event.data)
                     ELSE audio_recv
    /\ IF event.type = "text"
       THEN /\ listen_to_adk_text(event)
            /\ UNCHANGED listen_adk
       ELSE /\ IF ws_open
               THEN /\ out' = Sent(out, ImmediateMessage(event))
                    /\ UNCHANGED listen_adk
               ELSE \* send_text raises; the error message cannot be sent either
                    /\ listen_adk' = "done"
                    /\ UNCHANGED out
            /\ UNCHANGED <<session_data, timer_task>>
    /\ UNCHANGED <<endpoint, listen_client, ws_open, now>>
    /\ UNCHANGED regVars
    /\ UNCHANGED srvVars
    /\ UNCHANGED <<brgVars, authVars>>

\* listen_to_adk: runner.run_live raises; an error message, the task ends
listen_to_adk_failure ==
    /\ listen_adk = "running"
    /\ listen_adk' = "done"
    /\ out' = IF ws_open THEN Sent(out, Message("error", << >>)) ELSE out
    /\ last_event' = [type |-> "failure"]
    /\ UNCHANGED <<endpoint, session_data, timer_task, listen_client, ws_open, now,
                   audio_recv, n_events>>
    /\ UNCHANGED regVars
    /\ UNCHANGED srvVars
    /\ UNCHANGED <<brgVars, authVars>>

\* listen_to_adk: runner.run_live is exhausted; the task ends
listen_to_adk_exhausted ==
    /\ listen_adk = "running"
    /\ listen_adk' = "done"
    /\ last_event' = [type |-> "exhausted"]
    /\ UNCHANGED <<endpoint, session_data, timer_task, listen_client, ws_open, out, now,
                   audio_recv, n_events>>
    /\ UNCHANGED regVars
    /\ UNCHANGED srvVars
    /\ UNCHANGED <<brgVars, authVars>>

\* consolidate_and_send after asyncio.sleep(1.5), up to websocket.send_text
consolidate_and_send ==
    /\ timer_task.pc = "sleeping"
    /\ now >= timer_task.deadline
    /\ LET current_buffer == IF session_data = None THEN << >>
                             ELSE session_data.transcript_buffer
       IN  IF current_buffer = << >>
           THEN /\ timer_task' = NoTask
                /\ UNCHANGED session_data
           ELSE IF AlreadySent(longest_transcript(current_buffer),
                               session_data.last_transcript)
           THEN /\ timer_task' = NoTask
                /\ session_data' = [session_data EXCEPT !.transcript_buffer = << >>,
                                                        !.consolidation_timer = FALSE]
           ELSE /\ timer_task' = [pc |-> "sending", deadline |-> 0,
                                  msg |-> longest_transcript(current_buffer)]
                /\ UNCHANGED session_data
    /\ UNCHANGED <<endpoint, listen_client, listen_adk, ws_open, out, now, last_event,
                   audio_recv, n_events>>
    /\ UNCHANGED regVars
    /\ UNCHANGED srvVars
    /\ UNCHANGED <<brgVars, authVars>>

\* an update after the send that leaves the buffer as it is
TranscriptSent_buffer_kept(data, transcript) ==
    [data EXCEPT !.last_transcript = transcript, !.consolidation_timer = FALSE]

\* lines 232-236: the session dict after the transcript was sent
TranscriptSent(data, transcript) ==
    [last_transcript |-> transcript, transcript_buffer |-> << >>,
     consolidation_timer |-> FALSE]

\* consolidate_and_send from websocket.send_text on: the send returns and the
\* session dict is updated, or the send raises and nothing is
consolidate_send_done ==
    /\ timer_task.pc = "sending"
    /\ timer_task' = NoTask
    /\ IF ws_open
       THEN /\ out' = Sent(out, Message("transcript", timer_task.msg))
            /\ session_data' =
                   IF session_data = None THEN None
                   ELSE TranscriptSent(session_data, timer_task.msg)
       ELSE UNCHANGED <<out, session_data>>
    /\ UNCHANGED <<endpoint, listen_client, listen_adk, ws_open, now, last_event,
                   audio_recv, n_events>>
    /\ UNCHANGED regVars
    /\ UNCHANGED srvVars
    /\ UNCHANGED <<brgVars, authVars>>

\* a finally block that leaves the timer task alone
CancelledTimer_left_running(data, task) == task

\* consolidation_timer = session_data.get('consolidation_timer'); if it is
\* set, consolidation_timer.cancel(): the timer task afterwards
CancelledTimer(data, task) ==
    IF data # None /\ data.consolidation_timer THEN NoTask ELSE task

\* the finally block of websocket_endpoint, once asyncio.gather has returned:
\* cancel the timer, close the request queue, delete the session
websocket_endpoint_finally ==
    /\ endpoint = "running"
    /\ listen_client = "done"
    /\ listen_adk = "done"
    /\ endpoint' = "closed"
    /\ out' \in OutAfterCancel
    /\ timer_task' = CancelledTimer(session_data, timer_task)
    /\ session_data' = None
    /\ UNCHANGED <<listen_client, listen_adk, ws_open, now, last_event, audio_recv,
                   n_events>>
    /\ UNCHANGED regVars
    /\ UNCHANGED srvVars
    /\ UNCHANGED <<brgVars, authVars>>

\* half a second passes.  The clock is read by the consolidator alone (the
\* chunk timestamps and the timer's sleep), so time is advanced only while a
\* timer sleeps.
Tick ==
    /\ now < MaxTime
    /\ timer_task.pc = "sleeping"
    /\ now < timer_task.deadline
    /\ now' = now + 1
    /\ UNCHANGED <<endpoint, session_data, timer_task, listen_client, listen_adk,
                   ws_open, out, last_event, audio_recv, n_events>>
    /\ UNCHANGED regVars
    /\ UNCHANGED srvVars
    /\ UNCHANGED <<brgVars, authVars>>

InitUnified ==
    /\ endpoint = "accepting"
    /\ session_data = None
    /\ timer_task = NoTask
    /\ listen_client = "idle"
    /\ listen_adk = "idle"
    /\ ws_open = TRUE
    /\ out = << >>
    /\ now = 0
    /\ last_event = [type |-> "none"]
    /\ audio_recv = << >>
    /\ n_events = 0

NextUnified ==
    \/ websocket_endpoint_start
    \/ websocket_endpoint_start_failed
    \/ client_disconnect
    \/ listen_to_client_error
    \/ \E event \in UpstreamEvents : listen_to_adk_event(event)
    \/ listen_to_adk_failure
    \/ listen_to_adk_exhausted
    \/ consolidate_and_send
    \/ consolidate_send_done
    \/ websocket_endpoint_finally
    \/ Tick

(***************************************************************************)
(* websocket_server.py: VoiceWebSocketServer on top of the registry.       *)
(***************************************************************************)
\* inbound frames handled
MaxFrames == 2
\* upstream responses streamed
MaxResponses == 1

\* the websocket connections explored.  Connections share nothing but the
\* registry, which SpecRegistry explores with up to MaxCreates sessions.
Websockets == {"ws1"}

\* session_id = None of handle_client
NoSession == 0

\* ticks of the server clock explored
MaxServerTime == 2

\* no ping is on its way to the server
NoPing == -1

\* a pong whose timestamp is the time the server started, not the time of the send
pong_at_start(time) == [type |-> "pong", timestamp |-> 0]

\* {'type': 'pong', 'timestamp': time.time()} of handle_text_message
pong(time) == [type |-> "pong", timestamp |-> time]

\* no pong was sent yet
NoPong == [sent |-> NoPing, msg |-> pong(NoPing)]

\* user_id = f"voice_user_{int(time.time())}_{client_id[-8:]}"
VoiceUser(ws) == "voice_user_" \o ws

\* the "data" of a JSON audio frame: absent or empty, a string b64decode
\* rejects, the encoding of a payload, the same with a stray character in it
JsonAudioData ==
    {<< >>, <<63, 48, B64Pad>>, b64encode(<<255>>), <<B64Junk>> \o b64encode(<<0, 16>>)}

Frame(kind, data) == [kind |-> kind, data |-> data]

\* what a client may send: a binary frame, text that is no JSON, JSON that
\* is no object, the control messages, text input with and without text, a
\* JSON audio frame, JSON of an unknown type
Frames ==
    {Frame(k, << >>) : k \in {"binary", "malformed_json", "not_an_object", "ping",
                             "get_status", "stop_session", "text_input",
                             "empty_text_input", "unknown_type"}}
        \cup {Frame("json_audio", d) : d \in JsonAudioData}

\* the event_type values start_live_session yields
ResponseTypes == {"audio_response", "text_response", "tool_call", "turn_complete"}

\* send_message: the send is swallowed once the client is gone
Delivered(ws, types) ==
    IF ws_state[ws] = "closed" THEN ws_out
    ELSE [ws_out EXCEPT ![ws] = ws_out[ws] \o types]

\* process_audio_input / process_text_input: True when the session is found
\* and the item is put on its live_request_queue
SessionFound(session_id) == session_id \in DOMAIN active_sessions

\* handle_json_audio_message without the "No audio data" test
JsonAudioOutcome_no_data_test(data) ==
    IF b64decode(data) = B64Error THEN "decode_error" ELSE "process"

\* handle_json_audio_message, lines 231-238: what becomes of the "data" field
JsonAudioOutcome(data) ==
    IF data = << >> THEN "no_data"
    ELSE IF b64decode(data) = B64Error THEN "decode_error"
    ELSE "process"

\* handle_client up to the message loop: connection_established, the
\* session, auto_session_started, the stream_responses task
handle_client_connect(ws) ==
    /\ ws_state[ws] = "new"
    /\ session_seq < MaxCreates
    /\ LET session_id == session_seq + 1
           r == RegisterSession(Registry, session_id, VoiceUser(ws))
       IN  /\ active_sessions' = r.active
           /\ user_sessions' = r.users
           /\ queue_closes' = r.closes
           /\ session_seq' = session_id
           /\ ws_session_id' = [ws_session_id EXCEPT ![ws] = session_id]
           /\ websocket_sessions' = With(websocket_sessions, ws, session_id)
    /\ ws_state' = [ws_state EXCEPT ![ws] = "open"]
    /\ ws_out' = [ws_out EXCEPT ![ws] = ws_out[ws] \o
                      <<"connection_established", "auto_session_started">>]
    /\ stream_task' = [stream_task EXCEPT ![ws] = "running"]
    /\ UNCHANGED <<api_closes, pending_creates, view_delete, queue_sent, last_frame, n_frames, n_responses>>
    /\ UNCHANGED uvsVars
    /\ UNCHANGED <<server_time, ping_sent, last_pong>>
    /\ UNCHANGED <<brgVars, authVars>>

\* handle_client when create_auto_session returns None: an error message,
\* return, cleanup_connection(websocket, None)
handle_client_connect_failed(ws) ==
    /\ ws_state[ws] = "new"
    /\ LET r == create_auto_session_raised(Registry, VoiceUser(ws))
       IN  /\ active_sessions' = r.active
           /\ user_sessions' = r.users
           /\ queue_closes' = r.closes
    /\ ws_state' = [ws_state EXCEPT ![ws] = "closed"]
    /\ ws_out' = [ws_out EXCEPT ![ws] = ws_out[ws] \o
                      <<"connection_established", "error">>]
    /\ UNCHANGED <<session_seq, api_closes, pending_creates, view_delete, ws_session_id, websocket_sessions,
                   stream_task, queue_sent, last_frame, n_frames, n_responses>>
    /\ UNCHANGED uvsVars
    /\ UNCHANGED <<server_time, ping_sent, last_pong>>
    /\ UNCHANGED <<brgVars, authVars>>

\* the body of the message loop for one frame: the registry, the queue
\* count of the websocket's session and the message types sent in reply
HandleFrame(ws, frame) ==
    LET session_id == IF ws \in DOMAIN websocket_sessions
                      THEN websocket_sessions[ws] ELSE NoSession
        same == [reg |-> Registry, sent |-> queue_sent[ws], reply |-> << >>]
        error == [same EXCEPT !.reply = <<"error">>]
        pushed == [same EXCEPT !.sent = queue_sent[ws] + 1]
    IN  CASE frame.kind = "binary" ->
                \* handle_audio_data(websocket, message, session_id)
                IF ws_session_id[ws] = NoSession THEN error
                ELSE IF SessionFound(ws_session_id[ws]) THEN pushed ELSE same
          [] frame.kind \in {"malformed_json", "not_an_object"} -> error
          [] frame.kind = "ping" -> [same EXCEPT !.reply = <<"pong">>]
          [] frame.kind = "get_status" -> [same EXCEPT !.reply = <<"status_response">>]
          [] frame.kind = "stop_session" ->
                \* handle_stop_session: close_session returns True also for a
                \* session that is already gone
                IF session_id = NoSession THEN error
                ELSE [same EXCEPT !.reg = close_session(Registry, session_id),
                                  !.reply = <<"session_stopped">>]
          [] frame.kind = "text_input" ->
                IF session_id = NoSession THEN error
                ELSE IF SessionFound(session_id) THEN pushed ELSE error
          [] frame.kind = "empty_text_input" -> error
          [] frame.kind = "json_audio" ->
                IF session_id = NoSession THEN error
                ELSE IF JsonAudioOutcome(frame.data) # "process" THEN error
                ELSE IF SessionFound(session_id) THEN pushed ELSE same
          [] OTHER -> same

\* the client sends {"type": "ping"}; the frame is on its way until the
\* message loop takes it
client_send_ping(ws) ==
    /\ ws_state[ws] = "open"
    /\ n_frames < MaxFrames
    /\ ping_sent = NoPing
    /\ ping_sent' = server_time
    /\ UNCHANGED <<ws_state, ws_session_id, websocket_sessions, ws_out, stream_task,
                   queue_sent, last_frame, n_frames, n_responses, server_time,
                   last_pong>>
    /\ UNCHANGED regVars
    /\ UNCHANGED uvsVars
    /\ UNCHANGED <<brgVars, authVars>>

\* the server clock moves on while a ping is on its way (only pong reads it)
ServerTick ==
    /\ ping_sent # NoPing
    /\ server_time < MaxServerTime
    /\ server_time' = server_time + 1
    /\ UNCHANGED <<ws_state, ws_session_id, websocket_sessions, ws_out, stream_task,
                   queue_sent, last_frame, n_frames, n_responses, ping_sent,
                   last_pong>>
    /\ UNCHANGED regVars
    /\ UNCHANGED uvsVars
    /\ UNCHANGED <<brgVars, authVars>>

\* handle_client, one iteration of "async for message in websocket"
handle_client_message(ws, frame) ==
    /\ ws_state[ws] = "open"
    /\ n_frames < MaxFrames
    /\ (frame.kind = "ping") = (ping_sent # NoPing)
    /\ ping_sent' = NoPing
    /\ last_pong' = IF frame.kind = "ping"
                    THEN [sent |-> ping_sent, msg |-> pong(server_time)]
                    ELSE last_pong
    /\ UNCHANGED server_time
    /\ n_frames' = n_frames + 1
    /\ last_frame' = [ws |-> ws, frame |-> frame]
    /\ LET h == HandleFrame(ws, frame)
       IN  /\ active_sessions' = h.reg.active
           /\ user_sessions' = h.reg.users
           /\ queue_closes' = h.reg.closes
           /\ queue_sent' = [queue_sent EXCEPT ![ws] = h.sent]
           /\ ws_out' = Delivered(ws, h.reply)
    /\ UNCHANGED <<session_seq, api_closes, pending_creates, view_delete, ws_state, ws_session_id,
                   websocket_sessions, stream_task, n_responses>>
    /\ UNCHANGED uvsVars
    /\ UNCHANGED <<brgVars, authVars>>

\* the client goes away: the message loop ends and the finally block runs
\* cleanup_connection(websocket, session_id)
handle_client_disconnect(ws) ==
    /\ ws_state[ws] = "open"
    /\ ws_state' = [ws_state EXCEPT ![ws] = "closed"]
    /\ websocket_sessions' = IF ws \in DOMAIN websocket_sessions
                             THEN Without(websocket_sessions, ws)
                             ELSE websocket_sessions
    /\ LET r == IF ws_session_id[ws] # NoSession
                THEN close_session(Registry, ws_session_id[ws]) ELSE Registry
       IN  /\ active_sessions' = r.active
           /\ user_sessions' = r.users
           /\ queue_closes' = r.closes
    /\ UNCHANGED <<session_seq, api_closes, pending_creates, view_delete, ws_session_id, ws_out, stream_task,
                   queue_sent, last_frame, n_frames, n_responses>>
    /\ UNCHANGED uvsVars
    /\ ping_sent' = NoPing
    /\ UNCHANGED <<server_time, last_pong>>
    /\ UNCHANGED <<brgVars, authVars>>

\* the message type stream_responses sends for an event_type
ResponseMessage(type) ==
    CASE type = "audio_response" -> "adk_audio_response"
      [] type = "text_response" -> "adk_text_response"
      [] type = "tool_call" -> "adk_tool_call"
      [] type = "turn_complete" -> "adk_turn_complete"

\* stream_responses, one response of start_live_session
stream_responses_event(ws, type) ==
    /\ stream_task[ws] = "running"
    /\ ws_session_id[ws] \in DOMAIN active_sessions
    /\ n_responses < MaxResponses
    /\ n_responses' = n_responses + 1
    /\ ws_out' = Delivered(ws, <<ResponseMessage(type)>>)
    /\ UNCHANGED <<ws_state, ws_session_id, websocket_sessions, stream_task,
                   queue_sent, last_frame, n_frames>>
    /\ UNCHANGED regVars
    /\ UNCHANGED uvsVars
    /\ UNCHANGED <<server_time, ping_sent, last_pong>>
    /\ UNCHANGED <<brgVars, authVars>>

\* stream_responses when start_live_session ends (live_events is exhausted
\* or raises, which start_live_session swallows): finally close_session
stream_responses_end(ws) ==
    /\ stream_task[ws] = "running"
    /\ stream_task' = [stream_task EXCEPT ![ws] = "done"]
    /\ LET r == close_session(Registry, ws_session_id[ws])
       IN  /\ active_sessions' = r.active
           /\ user_sessions' = r.users
           /\ queue_closes' = r.closes
    /\ UNCHANGED <<session_seq, api_closes, pending_creates, view_delete, ws_state, ws_session_id,
                   websocket_sessions, ws_out, queue_sent, last_frame, n_frames,
                   n_responses>>
    /\ UNCHANGED uvsVars
    /\ UNCHANGED <<server_time, ping_sent, last_pong>>
    /\ UNCHANGED <<brgVars, authVars>>

InitServer ==
    /\ ws_state = [ws \in Websockets |-> "new"]
    /\ ws_session_id = [ws \in Websockets |-> NoSession]
    /\ websocket_sessions = << >>
    /\ ws_out = [ws \in Websockets |-> << >>]
    /\ stream_task = [ws \in Websockets |-> "none"]
    /\ queue_sent = [ws \in Websockets |-> 0]
    /\ last_frame = [ws |-> "none", frame |-> Frame("none", << >>)]
    /\ n_frames = 0
    /\ n_responses = 0
    /\ server_time = 0
    /\ ping_sent = NoPing
    /\ last_pong = NoPong


(***************************************************************************)
(* websocket_adk_bridge.py: WebSocketADKBridge and VoiceChatSession, one   *)
(* client connection.                                                      *)
(***************************************************************************)
\* the "data" / "audio_data" of an audio message: absent, a string
\* b64decode rejects, the encoding of a payload
BridgeAudioData == {<< >>, <<63, 48, B64Pad>>, b64encode(<<255>>)}

\* what a client may send to the bridge: text that is no JSON, JSON that is
\* no object, initialize_session, audio_data, a message without a type
\* (legacy audio), a message of another type
BridgeFrames ==
    {Frame(k, << >>) : k \in {"malformed_json", "not_an_object",
                             "initialize_session", "unknown_type"}}
        \cup {Frame(k, d) : k \in {"audio_data", "legacy_audio"}, d \in BridgeAudioData}

\* how _initialize_session goes: session.initialize() returns False, or
\* start_streaming raises before is_active is set, or both succeed
InitializeOutcomes == {"ok", "initialize_failed", "start_streaming_failed"}

\* the messages _handle_adk_event sends
BridgeResponseTypes ==
    {"adk_audio_response", "adk_text_response", "adk_turn_complete", "adk_interrupted"}

\* the bridge's maps and the client's log, as a value the handlers transform
Bridge == [sessions |-> brg_sessions, session |-> websocket_to_session,
           out |-> brg_out, seq |-> brg_seq]

\* VoiceChatSession.send_to_client / _send_error on an open websocket
BridgeSend(b, types) == [b EXCEPT !.out = b.out \o types]

\* a VoiceChatSession: is_active, its response_task, audio put on its queue
VoiceChatSession(is_active, response_task) ==
    [is_active |-> is_active, response_task |-> response_task, sent |-> 0]

\* _initialize_session(websocket, data)
_initialize_session(b, outcome) ==
    LET session_id == b.seq + 1
    IN  CASE outcome = "initialize_failed" ->
                BridgeSend([b EXCEPT !.seq = session_id], <<"error">>)
          [] outcome = "start_streaming_failed" ->
                BridgeSend([b EXCEPT !.seq = session_id,
                                     !.session = session_id,
                                     !.sessions = With(b.sessions, session_id,
                                                       VoiceChatSession(FALSE, "none"))],
                           <<"error">>)
          [] OTHER ->
                \* start_streaming: connection_established, auto_session_started,
                \* then the response task
                BridgeSend([b EXCEPT !.seq = session_id,
                                     !.session = session_id,
                                     !.sessions = With(b.sessions, session_id,
                                                       VoiceChatSession(TRUE, "running"))],
                           <<"connection_established", "auto_session_started">>)

\* VoiceChatSession.process_audio: dropped unless the session is active
process_audio(b, session_id) ==
    IF b.sessions[session_id].is_active
    THEN [b EXCEPT !.sessions[session_id].sent = @ + 1]
    ELSE b

\* _handle_audio_message / the second half of _handle_audio_data
BridgeAudio(b, data) ==
    IF b.session = NoSession \/ b.session \notin DOMAIN b.sessions
    THEN BridgeSend(b, <<"error">>)
    ELSE IF data = << >> THEN b
    ELSE IF b64decode(data) = B64Error THEN BridgeSend(b, <<"error">>)
    ELSE process_audio(b, b.session)

\* _cleanup_session(websocket, session_id): session.stop() and both maps;
\* session_stopped reaches the client only while the websocket is open
_cleanup_session(b, open) ==
    IF b.session = NoSession THEN b
    ELSE LET stopped == IF b.session \in DOMAIN b.sessions /\ open
                        THEN BridgeSend(b, <<"session_stopped">>) ELSE b
         IN  [stopped EXCEPT !.sessions = IF b.session \in DOMAIN b.sessions
                                          THEN Without(b.sessions, b.session)
                                          ELSE b.sessions,
                             !.session = NoSession]

\* _handle_message(websocket, data)
BridgeHandle(b, frame, outcome) ==
    CASE frame.kind = "malformed_json" -> BridgeSend(b, <<"error">>)
      [] frame.kind = "initialize_session" -> _initialize_session(b, outcome)
      [] frame.kind = "audio_data" -> BridgeAudio(b, frame.data)
      [] frame.kind = "legacy_audio" ->
            BridgeAudio(IF b.session = NoSession
                        THEN _initialize_session(b, outcome) ELSE b,
                        frame.data)
      [] frame.kind = "not_an_object" ->
            \* data.get raises AttributeError; handle_client leaves the loop
            \* and its finally block cleans up
            _cleanup_session(b, TRUE)
      [] OTHER -> b

\* a client connects: handle_client starts its loop, nothing is sent
bridge_connect ==
    /\ brg_state = "new"
    /\ brg_state' = "open"
    /\ UNCHANGED <<websocket_to_session, brg_sessions, brg_out, brg_seq, brg_frames,
                   brg_responses>>
    /\ UNCHANGED <<regVars, uvsVars, srvVars, authVars>>

\* handle_client of the bridge, one message
bridge_message(frame, outcome) ==
    /\ brg_state = "open"
    /\ brg_frames < MaxFrames
    /\ brg_frames' = brg_frames + 1
    /\ UNCHANGED brg_responses
    /\ LET b == BridgeHandle(Bridge, frame, outcome)
       IN  /\ brg_sessions' = b.sessions
           /\ websocket_to_session' = b.session
           /\ brg_out' = b.out
           /\ brg_seq' = b.seq
    /\ brg_state' = IF frame.kind = "not_an_object" THEN "closed" ELSE "open"
    /\ UNCHANGED <<regVars, uvsVars, srvVars, authVars>>

\* _process_adk_responses, one event of runner.run_live
bridge_response(session_id, type) ==
    /\ session_id \in DOMAIN brg_sessions
    /\ brg_sessions[session_id].response_task = "running"
    /\ brg_responses < MaxResponses
    /\ brg_responses' = brg_responses + 1
    /\ UNCHANGED brg_frames
    /\ IF brg_sessions[session_id].is_active
       THEN /\ brg_out' = IF brg_state = "open" THEN Append(brg_out, type) ELSE brg_out
            /\ UNCHANGED brg_sessions
       ELSE /\ brg_sessions' = [brg_sessions EXCEPT ![session_id].response_task = "done"]
            /\ UNCHANGED brg_out
    /\ UNCHANGED <<brg_state, websocket_to_session, brg_seq>>
    /\ UNCHANGED <<regVars, uvsVars, srvVars, authVars>>

\* _process_adk_responses: run_live is exhausted, or raises and an error
\* message is sent
bridge_response_end(session_id, failed) ==
    /\ session_id \in DOMAIN brg_sessions
    /\ brg_sessions[session_id].response_task = "running"
    /\ brg_sessions' = [brg_sessions EXCEPT ![session_id].response_task = "done"]
    /\ brg_out' = IF failed /\ brg_state = "open" THEN Append(brg_out, "error")
                  ELSE brg_out
    /\ UNCHANGED <<brg_state, websocket_to_session, brg_seq, brg_frames, brg_responses>>
    /\ UNCHANGED <<regVars, uvsVars, srvVars, authVars>>

\* the client goes away: the finally block of handle_client
bridge_disconnect ==
    /\ brg_state = "open"
    /\ brg_state' = "closed"
    /\ LET b == _cleanup_session(Bridge, FALSE)
       IN  /\ brg_sessions' = b.sessions
           /\ websocket_to_session' = b.session
           /\ brg_out' = b.out
           /\ brg_seq' = b.seq
    /\ UNCHANGED <<brg_frames, brg_responses>>
    /\ UNCHANGED <<regVars, uvsVars, srvVars, authVars>>

InitBridge ==
    /\ brg_state = "new"
    /\ websocket_to_session = NoSession
    /\ brg_sessions = << >>
    /\ brg_out = << >>
    /\ brg_seq = 0
    /\ brg_frames = 0
    /\ brg_responses = 0

NextBridge ==
    \/ bridge_connect
    \/ \E frame \in BridgeFrames : \E outcome \in InitializeOutcomes :
           bridge_message(frame, outcome)
    \/ \E s \in 1..brg_seq : \E type \in BridgeResponseTypes : bridge_response(s, type)
    \/ \E s \in 1..brg_seq : \E failed \in BOOLEAN : bridge_response_end(s, failed)
    \/ bridge_disconnect

(***************************************************************************)
(* user_manager/service/auth_service.py: TokenService and AuthService on   *)
(* the UserToken table (models/auth_models.py).                            *)
(***************************************************************************)
\* operations of the auth service explored
MaxAuthOps == 4
\* ticks of timezone.now() explored; a tick is half of JWT_EXPIRATION_HOURS
MaxAuthTime == 3

\* the user that logs in (tokens of different users share no row)
AuthUsers == {"alice"}

\* JWT_EXPIRATION_HOURS = 24, in ticks
JWT_EXPIRATION == 2

\* jwt.encode(payload): HS256 is deterministic, so the token is its payload,
\* the user and the second of issue ('exp' is 'iat' plus the expiration)
jwt_encode(user, iat) == [user |-> user, iat |-> iat]

\* every token a client may present: the ones login can issue
Tokens == {jwt_encode(u, t) : u \in AuthUsers, t \in 0..(MaxAuthTime + 1)}

\* UserToken.create_token: the row of a token
UserTokenRow(expires_at) == [is_active |-> TRUE, expires_at |-> expires_at]

\* UserToken.is_expired
is_expired(row, time) == time > row.expires_at

\* UserToken.is_valid that looks at the expiry alone
is_valid_expiry_only(row, time) == ~is_expired(row, time)

\* UserToken.is_valid
is_valid(row, time) == row.is_active /\ ~is_expired(row, time)

\* TokenService._is_token_blacklisted: a token without a row is not
_is_token_blacklisted(table, token, time) ==
    IF token \in DOMAIN table THEN ~is_valid(table[token], time) ELSE FALSE

\* jwt.decode: the signature is ours and 'exp' has not been reached
jwt_decode_ok(tokens, token, time) ==
    token \in tokens /\ time < token.iat + JWT_EXPIRATION

\* TokenService.verify_token: TRUE when (user, payload) is returned, FALSE
\* when ValidationError is raised
verify_token(table, tokens, token, time) ==
    ~_is_token_blacklisted(table, token, time) /\ jwt_decode_ok(tokens, token, time)

\* TokenService.invalidate_token: the row with this hash and is_active=True
CanInvalidate(table, token) == token \in DOMAIN table /\ table[token].is_active

invalidate_token(table, token) ==
    IF CanInvalidate(table, token)
    THEN [table EXCEPT ![token].is_active = FALSE]
    ELSE table

AuthResult(op, token, ok) == [op |-> op, token |-> token, ok |-> ok]

\* AuthService.login_user with the right password: generate_token and
\* _store_token, whose failure (the hash is there already, the database is
\* down) is logged and swallowed
login_user(user, stored) ==
    /\ n_auth_ops < MaxAuthOps
    /\ n_auth_ops' = n_auth_ops + 1
    /\ LET token == jwt_encode(user, auth_now)
       IN  /\ issued' = issued \cup {token}
           /\ user_tokens' =
                  IF stored /\ token \notin DOMAIN user_tokens
                  THEN With(user_tokens, token, UserTokenRow(auth_now + JWT_EXPIRATION))
                  ELSE user_tokens
           /\ last_auth' = AuthResult("login", token, TRUE)
    /\ UNCHANGED <<auth_now, invalidated>>
    /\ UNCHANGED <<regVars, uvsVars, srvVars, brgVars>>

\* AuthService.verify_token / TokenService.verify_token of a presented token
verify_token_call(token) ==
    /\ n_auth_ops < MaxAuthOps
    /\ n_auth_ops' = n_auth_ops + 1
    /\ last_auth' = AuthResult("verify", token,
                               verify_token(user_tokens, issued, token, auth_now))
    /\ UNCHANGED <<user_tokens, auth_now, issued, invalidated>>
    /\ UNCHANGED <<regVars, uvsVars, srvVars, brgVars>>

\* AuthService.logout_user: verify_token, then invalidate_token, whose
\* return value is not looked at
logout_user(token) ==
    /\ n_auth_ops < MaxAuthOps
    /\ n_auth_ops' = n_auth_ops + 1
    /\ IF verify_token(user_tokens, issued, token, auth_now)
       THEN /\ user_tokens' = invalidate_token(user_tokens, token)
            /\ invalidated' = IF CanInvalidate(user_tokens, token)
                              THEN invalidated \cup {token} ELSE invalidated
            /\ last_auth' = AuthResult("logout", token, TRUE)
       ELSE /\ last_auth' = AuthResult("logout", token, FALSE)
            /\ UNCHANGED <<user_tokens, invalidated>>
    /\ UNCHANGED <<auth_now, issued>>
    /\ UNCHANGED <<regVars, uvsVars, srvVars, brgVars>>

\* TokenService.invalidate_token called directly
invalidate_token_call(token) ==
    /\ n_auth_ops < MaxAuthOps
    /\ n_auth_ops' = n_auth_ops + 1
    /\ user_tokens' = invalidate_token(user_tokens, token)
    /\ invalidated' = IF CanInvalidate(user_tokens, token)
                      THEN invalidated \cup {token} ELSE invalidated
    /\ last_auth' = AuthResult("invalidate", token, CanInvalidate(user_tokens, token))
    /\ UNCHANGED <<auth_now, issued>>
    /\ UNCHANGED <<regVars, uvsVars, srvVars, brgVars>>

\* timezone.now() moves on
AuthTick ==
    /\ auth_now < MaxAuthTime
    /\ auth_now' = auth_now + 1
    /\ UNCHANGED <<user_tokens, issued, invalidated, last_auth, n_auth_ops>>
    /\ UNCHANGED <<regVars, uvsVars, srvVars, brgVars>>

InitAuth ==
    /\ user_tokens = << >>
    /\ auth_now = 0
    /\ issued = {}
    /\ invalidated = {}
    /\ last_auth = AuthResult("none", jwt_encode("alice", 0), FALSE)
    /\ n_auth_ops = 0

NextAuth ==
    \/ \E u \in AuthUsers : \E stored \in BOOLEAN : login_user(u, stored)
    \/ \E token \in Tokens : verify_token_call(token)
    \/ \E token \in Tokens : logout_user(token)
    \/ \E token \in Tokens : invalidate_token_call(token)
    \/ AuthTick
Init == InitRegistry /\ InitUnified /\ InitServer /\ InitBridge /\ InitAuth

NextRegistry ==
    \/ \E u \in Users : create_auto_session(u)
    \/ \E u \in Users : create_auto_session_failed(u)
    \/ \E s \in 1..session_seq : close_session_call(s)

SpecRegistry == Init /\ [][NextRegistry]_vars

\* the registry when create_auto_session calls of several connections are in
\* progress on the event loop at the same time
NextRegistryAsync ==
    \/ \E u \in Users : create_auto_session_suspend(u)
    \/ \E u \in Users : \E raised \in BOOLEAN : create_auto_session_resume(u, raised)
    \/ \E s \in 1..session_seq : close_session_call(s)

SpecRegistryAsync == Init /\ [][NextRegistryAsync]_vars

\* create_auto_session calls explored next to the REST views
MaxAdminCreates == 4

\* the registry with the audio path and the operations of the REST views
NextRegistryAdmin ==
    \/ \E u \in Users : session_seq < MaxAdminCreates /\ create_auto_session(u)
    \/ \E s \in 1..session_seq : close_session_call(s)
    \/ \E s \in 1..session_seq : process_audio_input_call(s)
    \/ cleanup_all_sessions_call
    \/ views_delete_begin
    \/ views_delete_mark
    \/ views_delete_del

SpecRegistryAdmin == Init /\ [][NextRegistryAdmin]_vars

NextServer ==
    \/ \E ws \in Websockets : handle_client_connect(ws)
    \/ \E ws \in Websockets : handle_client_connect_failed(ws)
    \/ \E ws \in Websockets : client_send_ping(ws)
    \/ ServerTick
    \/ \E ws \in Websockets : \E frame \in Frames : handle_client_message(ws, frame)
    \/ \E ws \in Websockets : handle_client_disconnect(ws)
    \/ \E ws \in Websockets : \E type \in ResponseTypes : stream_responses_event(ws, type)
    \/ \E ws \in Websockets : stream_responses_end(ws)

SpecServer == Init /\ [][NextServer]_vars

\* the server with the sessions of other connections: they share the
\* registry, and their create_auto_session calls run its capacity clean-up
NextServerShared ==
    \/ NextServer
    \/ \E u \in {"u1"} : create_auto_session(u)

SpecServerShared == Init /\ [][NextServerShared]_vars

SpecUnified == Init /\ [][NextUnified]_vars

\* SpecUnified with what the event loop guarantees: a task that can run does
\* run (the set-up, a timer whose sleep is over, a send that was started, the
\* finally block once asyncio.gather has returned) and time passes.  What the
\* client and the upstream do is not promised.
LiveUnified ==
    /\ SpecUnified
    /\ WF_vars(websocket_endpoint_start \/ websocket_endpoint_start_failed)
    /\ WF_vars(consolidate_and_send)
    /\ WF_vars(consolidate_send_done)
    /\ WF_vars(websocket_endpoint_finally)
    /\ WF_vars(Tick)

(***************************************************************************)
(* The consolidation step on buffers of long fragments: the connection is  *)
(* taken at the moment the last of a burst of text parts has been          *)
(* buffered and its timer sleeps.                                          *)
(***************************************************************************)
\* text parts of one burst
MaxBurst == 3

\* a text of n characters c
LongText(n, c) == [i \in 1..n |-> c]

\* the texts of a burst: below and above 50 characters, on both sides of
\* 80% of the longest, two of them equally long
BurstTexts ==
    {LongText(n, "a") : n \in {40, 51, 63, 64, 80}} \cup {LongText(80, "b")}

\* transcript_buffer after the text parts of a burst arrived one tick apart
BurstBuffer(texts) == [i \in 1..Len(texts) |-> Chunk(texts[i], i - 1)]

InitBurst ==
    /\ InitRegistry /\ InitServer /\ InitBridge /\ InitAuth
    /\ endpoint = "running"
    /\ listen_client = "running"
    /\ listen_adk = "running"
    /\ ws_open = TRUE
    /\ out = <<Message("connected", << >>)>>
    /\ audio_recv = << >>
    /\ \E n \in 1..MaxBurst : \E texts \in [1..n -> BurstTexts] :
           /\ session_data \in
                  {[last_transcript |-> last, transcript_buffer |-> BurstBuffer(texts),
                    consolidation_timer |-> TRUE] : last \in {<< >>, LongText(80, "a")}}
           /\ now = n - 1
           /\ timer_task = [pc |-> "sleeping", deadline |-> n - 1 + ConsolidationDelay,
                            msg |-> << >>]
           /\ last_event = TextEvent(texts[n])
           /\ n_events = n

NextBurst ==
    \/ Tick
    \/ consolidate_and_send
    \/ consolidate_send_done
    \/ client_disconnect

SpecBurst == InitBurst /\ [][NextBurst]_vars

\* SpecBurst with what the event loop guarantees: time passes, a timer whose
\* sleep is over runs, a send that was started ends
LiveBurst ==
    /\ SpecBurst
    /\ WF_vars(Tick)
    /\ WF_vars(consolidate_and_send)
    /\ WF_vars(consolidate_send_done)

SpecBridge == Init /\ [][NextBridge]_vars

SpecAuth == Init /\ [][NextAuth]_vars

(***************************************************************************)
(* C1: after any sequence of create and close operations at most one       *)
(* session of a given user_id is present in active_sessions.               *)
(***************************************************************************)
C1_OneSessionPerUser ==
    \A a, b \in DOMAIN active_sessions :
        active_sessions[a].user_id = active_sessions[b].user_id => a = b

(***************************************************************************)
(* C2: the number of registered sessions never exceeds max_sessions.       *)
(***************************************************************************)
C2_AtMostMaxSessions == Cardinality(DOMAIN active_sessions) <= max_sessions

\* how many times a message type was delivered to a websocket's client
CountOf(ws, type) == Len(SelectSeq(ws_out[ws], LAMBDA m : m = type))

(***************************************************************************)
(* C3: closing a session twice is observably the same as closing it once:  *)
(* no client is ever sent a second session_stopped.                        *)
(***************************************************************************)
C3_NoSecondSessionStopped ==
    \A ws \in Websockets : CountOf(ws, "session_stopped") <= 1

(***************************************************************************)
(* Reading the state of one unified_voice_server connection.               *)
(***************************************************************************)
\* the data of the messages of one type the client was sent, in order
DataOf(log, type) ==
    LET picked == SelectSeq(log, LAMBDA m : m.type = type)
    IN  [i \in 1..Len(picked) |-> picked[i].data]

\* a is a proper prefix of b
IsProperPrefix(a, b) == Len(a) < Len(b) /\ SubSeq(b, 1, Len(a)) = a

Buffer == IF session_data = None THEN << >> ELSE session_data.transcript_buffer

\* the buffered chunks are a cumulative stream: each text strictly extends
\* the one before it and came less than 1.5 s after it
CumulativeBuffer ==
    /\ Buffer # << >>
    /\ \A i \in 1..(Len(Buffer) - 1) :
           /\ IsProperPrefix(Buffer[i].text, Buffer[i + 1].text)
           /\ Buffer[i + 1].timestamp - Buffer[i].timestamp < ConsolidationDelay

FinalFragment == Buffer[Len(Buffer)].text

\* the step in which the sleeping timer task wakes up and consolidates
TimerFires ==
    /\ timer_task.pc = "sleeping"
    /\ timer_task'.pc # "sleeping"
    /\ endpoint' = endpoint

\* the step in which the timer task's send_text returns or raises
TimerSendEnds ==
    /\ timer_task.pc = "sending"
    /\ timer_task'.pc = "idle"
    /\ endpoint' = endpoint

\* the step in which listen_to_adk handles a text part
TextDeltaHandled ==
    /\ n_events' = n_events + 1
    /\ last_event'.type = "text"

(***************************************************************************)
(* C4 as stated: when the timer fires on a cumulative stream, one          *)
(* Transcript equal to the final fragment is sent.                         *)
(***************************************************************************)
C4_AsStated ==
    [][(TimerFires /\ CumulativeBuffer)
          => (timer_task'.pc = "sending" /\ timer_task'.msg = FinalFragment)]_vars

(***************************************************************************)
(* C4 amended: while the fragments of a cumulative stream arrive nothing   *)
(* is sent; when the timer fires on it, the final fragment is sent - once, *)
(* to a connected client - unless it equals or is contained in             *)
(* last_transcript, and then nothing is sent.                              *)
(***************************************************************************)
C4_CumulativeStream ==
    [][/\ (TimerFires /\ CumulativeBuffer) =>
            IF \/ FinalFragment = session_data.last_transcript
               \/ IsSubstring(FinalFragment, session_data.last_transcript)
            THEN timer_task'.pc = "idle" /\ out' = out
            ELSE timer_task' = [pc |-> "sending", deadline |-> 0, msg |-> FinalFragment]
                 /\ out' = out
       /\ (TimerSendEnds /\ CumulativeBuffer /\ ws_open) =>
            out' = Append(out, Message("transcript", FinalFragment))
       /\ (TextDeltaHandled /\ timer_task.pc # "sending") => out' = out]_vars

\* "Hi", then "Hi there" within 1.5 s: the timer task is sending "Hi there"
C4_Witness ==
    /\ timer_task = [pc |-> "sending", deadline |-> 0, msg |-> T_Hi_there]
    /\ Len(Buffer) = 2
    /\ Buffer[1].text = T_Hi
    /\ CumulativeBuffer
    /\ DataOf(out, "transcript") = << >>

(***************************************************************************)
(* C5: once TurnComplete has been handled for a connected client the       *)
(* buffer has been flushed: it is empty and no timer is left sleeping.     *)
(***************************************************************************)
C5_TurnCompleteFlushes ==
    (last_event = TurnCompleteEvent /\ ws_open /\ session_data # None)
        => (session_data.transcript_buffer = << >> /\ timer_task.pc # "sleeping")

(***************************************************************************)
(* C6: when the consolidation step runs and the selected candidate equals  *)
(* last_transcript or is a substring of it, no Transcript is sent and the  *)
(* buffer is cleared.                                                      *)
(***************************************************************************)
C6_DuplicateDiscarded ==
    [][(/\ TimerFires
        /\ Buffer # << >>
        /\ LET candidate == longest_transcript(Buffer)
           IN  \/ candidate = session_data.last_transcript
               \/ IsSubstring(candidate, session_data.last_transcript))
          => (/\ out' = out
              /\ timer_task'.pc = "idle"
              /\ session_data'.transcript_buffer = << >>)]_vars

C6_Witness ==
    /\ session_data # None
    /\ session_data.last_transcript = T_Hello_world
    /\ last_event = TextEvent(T_Hello)
    /\ session_data.transcript_buffer = << >>
    /\ timer_task.pc = "idle"
    /\ DataOf(out, "transcript") = <<T_Hello_world>>

(***************************************************************************)
(* C7: a text part shorter than 2 characters is dropped: it leaves the     *)
(* buffer and the timer as they are, and no text shorter than 2            *)
(* characters is ever buffered, selected or sent as a Transcript.          *)
(***************************************************************************)
C7_ShortFragmentDropped ==
    /\ [](/\ \A i \in 1..Len(Buffer) : Len(Buffer[i].text) >= 2
          /\ timer_task.pc = "sending" => Len(timer_task.msg) >= 2
          /\ \A i \in 1..Len(DataOf(out, "transcript")) :
                 Len(DataOf(out, "transcript")[i]) >= 2)
    /\ [][(TextDeltaHandled /\ Len(last_event'.text) < 2)
              => UNCHANGED <<session_data, timer_task, out>>]_vars

C7_Witness ==
    /\ last_event = TextEvent(T_x)
    /\ timer_task.pc = "sleeping"
    /\ Len(Buffer) = 1
    /\ n_events = 2

(***************************************************************************)
(* C9: the audio_chunk messages the client was sent decode, one by one and *)
(* in order, to the audio parts received from upstream; while the client   *)
(* is connected none is missing, whether or not a timer is pending.        *)
(***************************************************************************)
C9_AudioInOrder ==
    LET chunks == DataOf(out, "audio_chunk")
    IN  /\ Len(chunks) <= Len(audio_recv)
        /\ \A i \in 1..Len(chunks) : b64decode(chunks[i]) = audio_recv[i]
        /\ ws_open => Len(chunks) = Len(audio_recv)

C9_Witness ==
    /\ Len(DataOf(out, "audio_chunk")) = 2
    /\ audio_recv = << <<255>>, <<0, 16>> >>
    /\ timer_task.pc = "sleeping"
    /\ ws_open

(***************************************************************************)
(* C8: a session that has terminated while its client is still connected   *)
(* has left the registry and its client was sent session_stopped.          *)
(***************************************************************************)
C8_NoSilentDrop ==
    \A ws \in Websockets :
        (/\ ws_state[ws] = "open"
         /\ ws_session_id[ws] # NoSession
         /\ ws_session_id[ws] \notin DOMAIN active_sessions)
            => CountOf(ws, "session_stopped") >= 1

(***************************************************************************)
(* C10: a frame that is no JSON, or a JSON audio frame whose data is       *)
(* missing or does not decode, is answered with one error message; nothing *)
(* is put on the upstream queue, the registry and the connection's session *)
(* stay as they are, and the message loop goes on.                         *)
(***************************************************************************)
C10_BadFrame(frame) ==
    \/ frame.kind = "malformed_json"
    \/ /\ frame.kind = "json_audio"
       /\ \/ frame.data = << >>
          \/ b64decode(frame.data) = B64Error

C10_BadFrameAnswered ==
    [][(n_frames' = n_frames + 1 /\ C10_BadFrame(last_frame'.frame))
          => (/\ ws_out' = [ws_out EXCEPT ![last_frame'.ws] = Append(@, "error")]
              /\ UNCHANGED <<queue_sent, active_sessions, user_sessions,
                             websocket_sessions, ws_session_id, ws_state,
                             stream_task>>
              /\ ws_state'[last_frame'.ws] = "open")]_vars

\* a ping, then a JSON audio frame whose data does not decode: a pong, then
\* an error, and the session is still registered
C10_Witness ==
    /\ last_frame = [ws |-> "ws1", frame |-> Frame("json_audio", <<63, 48, B64Pad>>)]
    /\ ws_out["ws1"] = <<"connection_established", "auto_session_started",
                         "pong", "error">>
    /\ ws_state["ws1"] = "open"
    /\ queue_sent["ws1"] = 0
    /\ ws_session_id["ws1"] \in DOMAIN active_sessions

(***************************************************************************)
(* C11: an audio or text frame that cannot be pushed upstream because the  *)
(* connection's session is no longer in the registry is answered with an   *)
(* error message.                                                          *)
(***************************************************************************)
C11_Pushable(frame) ==
    \/ frame.kind \in {"binary", "text_input"}
    \/ frame.kind = "json_audio" /\ JsonAudioOutcome(frame.data) = "process"

C11_LostSessionAnswered ==
    [][(/\ n_frames' = n_frames + 1
        /\ C11_Pushable(last_frame'.frame)
        /\ ws_session_id[last_frame'.ws] # NoSession
        /\ ws_session_id[last_frame'.ws] \notin DOMAIN active_sessions)
          => ws_out' = [ws_out EXCEPT ![last_frame'.ws] = Append(@, "error")]]_vars

(***************************************************************************)
(* C12: the first message a connection is sent is connection_established,  *)
(* the second, once a session has started, is auto_session_started, and no *)
(* response of the session (audio, text, tool call, turn complete) comes   *)
(* before auto_session_started.  Stated of both servers that send the two  *)
(* messages, VoiceWebSocketServer and WebSocketADKBridge.                  *)
(***************************************************************************)
C12_Responses ==
    {ResponseMessage(type) : type \in ResponseTypes} \cup BridgeResponseTypes

C12_Handshake(log) ==
    /\ Len(log) >= 1 => log[1] = "connection_established"
    /\ (\E i \in 1..Len(log) : log[i] = "auto_session_started")
          => log[2] = "auto_session_started"
    /\ \A i \in 1..Len(log) :
          log[i] \in C12_Responses
             => \E j \in 1..(i - 1) : log[j] = "auto_session_started"

C12_HandshakeFirst ==
    /\ \A ws \in Websockets : C12_Handshake(ws_out[ws])
    /\ C12_Handshake(brg_out)

\* the same of VoiceWebSocketServer alone
C12_ServerHandshakeFirst == \A ws \in Websockets : C12_Handshake(ws_out[ws])

(***************************************************************************)
(* C13: a ping frame is answered on its connection with a pong whose       *)
(* timestamp is not earlier than the time the ping was sent; nothing is    *)
(* put on the upstream queue and the registry and the connection's session *)
(* stay as they are.                                                       *)
(***************************************************************************)
C13_PingAnswered ==
    [][(n_frames' = n_frames + 1 /\ last_frame'.frame.kind = "ping")
          => (/\ ws_out' = [ws_out EXCEPT ![last_frame'.ws] = Append(@, "pong")]
              /\ last_pong'.sent = ping_sent
              /\ last_pong'.msg.type = "pong"
              /\ last_pong'.msg.timestamp >= ping_sent
              /\ UNCHANGED <<queue_sent, active_sessions, user_sessions, queue_closes,
                             websocket_sessions, ws_session_id, ws_state,
                             stream_task>>)]_vars

\* a second ping was sent at time 1 and answered at time 2
C13_Witness ==
    /\ last_frame.frame.kind = "ping"
    /\ n_frames = 2
    /\ last_pong.sent = 1
    /\ last_pong.msg.timestamp = 2
    /\ ws_out["ws1"] = <<"connection_established", "auto_session_started",
                         "pong", "pong">>

(***************************************************************************)
(* C14: a token that a logout has invalidated is rejected by every later   *)
(* verification, whatever logins, verifications and logouts follow; an     *)
(* issued token that is neither invalidated nor expired verifies.          *)
(***************************************************************************)
C14_VerifyStep == n_auth_ops' = n_auth_ops + 1 /\ last_auth'.op \in {"verify", "logout"}

C14_InvalidatedStaysRejected ==
    /\ [](\A token \in invalidated :
             /\ token \in DOMAIN user_tokens
             /\ ~user_tokens[token].is_active)
    /\ [][/\ invalidated \subseteq invalidated'
          /\ C14_VerifyStep /\ last_auth'.token \in invalidated => ~last_auth'.ok
          /\ (/\ C14_VerifyStep
              /\ last_auth'.token \in issued \ invalidated
              /\ auth_now < last_auth'.token.iat + JWT_EXPIRATION)
                => last_auth'.ok]_vars

\* alice's token of second 0 was invalidated by a logout and, after four
\* operations in all, verified in the same second and rejected
C14_Witness ==
    /\ last_auth = AuthResult("verify", jwt_encode("alice", 0), FALSE)
    /\ jwt_encode("alice", 0) \in invalidated
    /\ auth_now = 0
    /\ n_auth_ops = 4

(***************************************************************************)
(* C15: once the client has disconnected from a running session, the       *)
(* session is eventually closed (both listeners stopped, the request queue *)
(* closed, the session removed), also when the upstream sends nothing more.*)
(***************************************************************************)
C15_Closed ==
    /\ endpoint = "closed"
    /\ listen_client = "done"
    /\ listen_adk = "done"
    /\ session_data = None

C15_DisconnectCloses == (endpoint = "running" /\ ~ws_open) ~> C15_Closed

(***************************************************************************)
(* C16: once the upstream stream has failed or is exhausted while the      *)
(* client is connected, the session is eventually closed without the       *)
(* client having to disconnect.                                            *)
(***************************************************************************)
C16_UpstreamEndCloses ==
    [](endpoint = "running" /\ listen_adk = "done" /\ ws_open
          => <>(session_data = None \/ ~ws_open))

(***************************************************************************)
(* C17: when a session is closed with fragments in its buffer, the         *)
(* consolidation step runs first: the candidate is sent to the client      *)
(* that is still connected, unless it repeats the last transcript.         *)
(***************************************************************************)
C17_FlushOnClose ==
    [][(/\ endpoint = "running" /\ endpoint' = "closed"
        /\ ws_open
        /\ session_data # None
        /\ session_data.transcript_buffer # << >>
        /\ ~AlreadySent(longest_transcript(session_data.transcript_buffer),
                        session_data.last_transcript))
          => out' = Sent(out, Message("transcript",
                                      longest_transcript(session_data.transcript_buffer)))]_vars

(***************************************************************************)
(* C18: a session has at most one pending consolidation timer.  The task   *)
(* that is pending is always the one the session's consolidation_timer     *)
(* handle refers to, so the TextDelta that starts a new task cancels it    *)
(* first; and once a timer has sent its transcript the buffer is empty and *)
(* no timer is pending, so the same fragments are not consolidated again.  *)
(***************************************************************************)
C18_TimerPending == timer_task.pc \in {"sleeping", "sending"}

C19_TranscriptSent ==
    /\ Len(out') = Len(out) + 1
    /\ out'[Len(out')].type = "transcript"

C19_NoTimerAfterClose ==
    /\ [](session_data = None => timer_task = NoTask)
    /\ [][/\ (endpoint = "running" /\ endpoint' = "closed")
               => (timer_task' = NoTask /\ session_data' = None)
          /\ (TimerFires \/ TimerSendEnds \/ C19_TranscriptSent) => session_data # None
          /\ (TimerFires \/ TimerSendEnds) => session_data' # None]_vars

\* a session was closed, with its client connected, while its timer was
\* asleep (the clock has moved, which it does for a sleeping timer only, and
\* not far enough for any timer to be due): no timer and no transcript
C19_Witness ==
    /\ endpoint = "closed"
    /\ session_data = None
    /\ timer_task = NoTask
    /\ now = 2
    /\ ws_open
    /\ \A i \in 1..Len(out) : out[i].type # "transcript"

(***************************************************************************)
(* C20: whatever closing triggers hit a session (stop_session, the end of  *)
(* stream_responses, the disconnect clean-up, eviction), its request queue *)
(* is closed exactly once and its registry entry is removed once: a        *)
(* session that is registered has an open queue, one that is gone has a    *)
(* queue closed once and never comes back, and a trigger that finds the    *)
(* session gone changes nothing in the registry.                           *)
(***************************************************************************)
C20_Gone(s) == s \in DOMAIN queue_closes /\ s \notin DOMAIN active_sessions

C20_ClosedExactlyOnce ==
    /\ [](\A s \in DOMAIN queue_closes :
             queue_closes[s] = IF s \in DOMAIN active_sessions THEN 0 ELSE 1)
    /\ [](DOMAIN active_sessions \subseteq DOMAIN queue_closes)
    /\ [][\A s \in DOMAIN queue_closes :
             C20_Gone(s) => (s \notin DOMAIN active_sessions' /\ queue_closes'[s] = 1)]_vars

\* stop_session, the end of stream_responses and the disconnect clean-up
\* have all hit the connection's session
C20_Witness ==
    /\ last_frame.frame.kind = "stop_session"
    /\ stream_task["ws1"] = "done"
    /\ ws_state["ws1"] = "closed"
    /\ ws_session_id["ws1"] # NoSession
    /\ C20_Gone(ws_session_id["ws1"])
    /\ queue_closes[ws_session_id["ws1"]] = 1

(***************************************************************************)
(* C21: create is atomic with respect to the other registry mutations:     *)
(* whatever the interleaving of create_auto_session calls that suspend     *)
(* between the capacity check and the registration, and of close_session   *)
(* calls, at most max_sessions sessions are registered and no user has     *)
(* two of them.                                                            *)
(***************************************************************************)
C21_InvariantsUnderInterleaving ==
    /\ Cardinality(DOMAIN active_sessions) <= max_sessions
    /\ \A a, b \in DOMAIN active_sessions :
           a # b => active_sessions[a].user_id # active_sessions[b].user_id

(***************************************************************************)
(* C22: a session's lifecycle only moves forward: a registered session     *)
(* that has been marked inactive is not active again after any step (a     *)
(* late audio frame handled by process_audio_input included), and a        *)
(* session id that has left the registry never reappears in it.            *)
(***************************************************************************)
C22_ForwardOnly ==
    [][/\ \A s \in DOMAIN active_sessions :
              (~active_sessions[s].is_active /\ s \in DOMAIN active_sessions')
                  => ~active_sessions'[s].is_active
       /\ \A s \in 1..session_seq :
              s \notin DOMAIN active_sessions => s \notin DOMAIN active_sessions']_vars

(***************************************************************************)
(* C23: upstream text reaches the client only as a consolidated            *)
(* transcript: no text response is forwarded to a client as it arrives.    *)
(***************************************************************************)
C23_NoImmediateText ==
    \A ws \in Websockets : CountOf(ws, "adk_text_response") = 0

(***************************************************************************)
(* C24: a client connection has at most one session at any time: at most   *)
(* one session created for the connection is in the bridge's               *)
(* active-session map, and every session in the map is the one the         *)
(* connection points to.                                                   *)
(***************************************************************************)
C24_OneSessionPerConnection ==
    /\ Cardinality(DOMAIN brg_sessions) <= 1
    /\ \A s \in DOMAIN brg_sessions : websocket_to_session = s

\* the lengths of the buffered fragments and the greatest of them
BufferLengths == {Buffer[i].length : i \in 1..Len(Buffer)}

MaxBufferLength == CHOOSE n \in BufferLengths : \A m \in BufferLengths : m <= n

\* the positions of the buffered fragments longer than 50 characters
LongFragments == {i \in 1..Len(Buffer) : Buffer[i].length > LongLength}

\* the most recently received of them
MostRecentLong == CHOOSE i \in LongFragments : \A j \in LongFragments : j <= i

\* text is what the claim makes the candidate of the buffer
IsCandidate(text) ==
    IF LongFragments # {} /\ 5 * Buffer[MostRecentLong].length >= 4 * MaxBufferLength
    THEN text = Buffer[MostRecentLong].text
    ELSE \E i \in 1..Len(Buffer) :
             Buffer[i].length = MaxBufferLength /\ Buffer[i].text = text

(***************************************************************************)
(* C25: when the consolidation step runs on a non-empty buffer, the        *)
(* candidate is the buffered fragment of maximum length, unless the most   *)
(* recently received fragment longer than 50 characters has at least 80%   *)
(* of that length, and then that fragment is the candidate; nothing else   *)
(* is emitted (the candidate is sent, or it is dropped as already sent).   *)
(***************************************************************************)
C25_CandidateSelection ==
    [][(TimerFires /\ Buffer # << >>)
          => \/ timer_task'.pc = "sending" /\ IsCandidate(timer_task'.msg)
             \/ /\ timer_task'.pc = "idle"
                /\ out' = out
                /\ \E i \in 1..Len(Buffer) :
                       /\ IsCandidate(Buffer[i].text)
                       /\ AlreadySent(Buffer[i].text, session_data.last_transcript)]_vars

\* an 80-character fragment, then a 64-character one: the shorter, later
\* fragment is being sent
C25_Witness ==
    /\ Len(Buffer) = 2
    /\ Buffer[1].text = LongText(80, "b")
    /\ Buffer[2].text = LongText(64, "a")
    /\ timer_task.pc = "sending"
    /\ timer_task.msg = LongText(64, "a")

\* the step is a create_auto_session that evicts session s for capacity
Evicts(s) ==
    /\ session_seq' = session_seq + 1
    /\ s \in DOMAIN active_sessions
    /\ s \notin DOMAIN active_sessions'

(***************************************************************************)
(* C26: when create evicts a session for capacity, session_stopped is      *)
(* sent toward the client of the evicted session, and no error.            *)
(***************************************************************************)
C26_EvictedGetsSessionStopped ==
    [][\A ws \in Websockets :
           (ws_state[ws] = "open" /\ Evicts(ws_session_id[ws]))
               => ws_out'[ws] = Append(ws_out[ws], "session_stopped")]_vars

C28_MapsAgree ==
    /\ \A u \in DOMAIN user_sessions :
           /\ user_sessions[u] \in DOMAIN active_sessions
           /\ active_sessions[user_sessions[u]].user_id = u
    /\ \A s \in DOMAIN active_sessions :
           /\ active_sessions[s].user_id \in DOMAIN user_sessions
           /\ user_sessions[active_sessions[s].user_id] = s

\* the session is stored and fragments are waiting in its buffer
C29_Buffered == session_data # None /\ Buffer # << >>

\* the session is stored, its buffer is empty and no timer is pending
C29_Resolved ==
    session_data # None /\ Buffer = << >> /\ timer_task = NoTask

C30_Transcripts == DataOf(out, "transcript")

(***************************************************************************)
(* C30: the last_transcript of a stored session is the data of the most    *)
(* recent transcript message its client was sent (the empty string if      *)
(* there was none), also when a TextDelta cancels the timer task in the    *)
(* middle of its send; so no transcript text is sent twice in a row.       *)
(***************************************************************************)
C30_LastTranscriptIsLastSent ==
    /\ session_data # None =>
           session_data.last_transcript =
               IF C30_Transcripts = << >> THEN << >>
               ELSE C30_Transcripts[Len(C30_Transcripts)]
    /\ \A i \in 1..(Len(C30_Transcripts) - 1) :
           C30_Transcripts[i] # C30_Transcripts[i + 1]

=============================================================================
